---- MODULE Spec2Model ----
(***************************************************************************)
(* Model of the chat core of src/Class/chat.py: message normalisation,     *)
(* payload construction, the generator generate_legal_advice, the          *)
(* orchestrator automated_chat and the term-definition lookup.             *)
(*                                                                         *)
(* Strings are sequences of one-character strings, so that concatenation   *)
(* is \o and emptiness is the empty sequence.  Python values carry a type  *)
(* tag t: "str", "dict", "bytes", "image", "tuple", "generator".           *)
(***************************************************************************)
EXTENDS Integers, Sequences, FiniteSets, TLC

\* ---------------------------------------------------------------- bounds
MaxSubmits == 2      \* automated_chat calls started in one run
MaxChunks == 2       \* chunks the backend serves in one run, one caller
MaxChunksConc == 1   \* chunks the backend serves in one run, two callers
MaxItems == 2        \* items of a tuple message
MaxFiles == 2        \* attachments of a dict message

\* ---------------------------------------------------------------- values
None == [t |-> "None"]
Str(s) == [t |-> "str", v |-> s]
GeneratorObject == [t |-> "generator"]

Dict(d) == [t |-> "dict", d |-> d]
Bytes(b) == [t |-> "bytes", b |-> b]
ImageObject == [t |-> "image"]
Tuple(items) == [t |-> "tuple", items |-> items]

\* file paths are strings; NoPath stands for file_path=None / ""
NoPath == <<>>
GsPath == <<"g", "s", ":", "/", "/", "b">>
PdfPath == <<"/", "a", ".", "p", "d", "f">>
OddPath == <<"/", "x">>
MissingPath == <<"/", "m", ".", "p", "d", "f">>
DeniedPath == <<"/", "n", ".", "p", "d", "f">>
DirPath == <<"/", "d">>

\* the local file system: what open(path, "rb") meets
FileState(path) ==
  CASE path = PdfPath -> "ok"
    [] path = OddPath -> "ok"
    [] path = DeniedPath -> "denied"
    [] path = DirPath -> "dir"
    [] OTHER -> "missing"

FileData(path) == IF path = PdfPath THEN <<37, 80>> ELSE <<1, 2, 3, 4>>

QPlain == <<"h", "i">>
QWhatIs == <<"W", "h", "a", "t", " ", "i", "s", " ", "x", "?">>
QEmpty == <<>>
\* the (question, file_path) arguments given to automated_chat
Inputs ==
  {<<QPlain, NoPath>>, <<QWhatIs, NoPath>>, <<QEmpty, NoPath>>,
   <<QPlain, GsPath>>, <<QPlain, MissingPath>>}

DefText == <<"d", "e", "f">>

\* ------------------------------------------------------- string helpers
LowerChar(c) ==
  CASE c = "W" -> "w"
    [] c = "H" -> "h"
    [] c = "A" -> "a"
    [] c = "T" -> "t"
    [] c = "I" -> "i"
    [] c = "S" -> "s"
    [] c = "X" -> "x"
    [] OTHER -> c

Lower(s) == [i \in 1..Len(s) |-> LowerChar(s[i])]

StartsWith(s, p) == Len(s) >= Len(p) /\ SubSeq(s, 1, Len(p)) = p

WhatIs == <<"w", "h", "a", "t", " ", "i", "s">>

RECURSIVE Replace(_, _)
\* str.replace(pat, "") : every non-overlapping occurrence, left to right
Replace(s, pat) ==
  IF s = <<>> THEN <<>>
  ELSE IF StartsWith(s, pat) THEN Replace(SubSeq(s, Len(pat) + 1, Len(s)), pat)
  ELSE <<Head(s)>> \o Replace(Tail(s), pat)

RECURSIVE LStrip(_, _)
LStrip(s, cs) == IF s # <<>> /\ Head(s) \in cs THEN LStrip(Tail(s), cs) ELSE s

RECURSIVE RStrip(_, _)
RStrip(s, cs) ==
  IF s # <<>> /\ s[Len(s)] \in cs THEN RStrip(SubSeq(s, 1, Len(s) - 1), cs) ELSE s

Strip(s, cs) == RStrip(LStrip(s, cs), cs)

RECURSIVE Join(_)
\* "".join(list of strings)
Join(ss) == IF ss = <<>> THEN <<>> ELSE Head(ss) \o Join(Tail(ss))

\* --------------------------------------------------------------- base64
B64Alphabet ==
  <<"A","B","C","D","E","F","G","H","I","J","K","L","M","N","O","P",
    "Q","R","S","T","U","V","W","X","Y","Z","a","b","c","d","e","f",
    "g","h","i","j","k","l","m","n","o","p","q","r","s","t","u","v",
    "w","x","y","z","0","1","2","3","4","5","6","7","8","9","+","/">>

B64Char(n) == B64Alphabet[n + 1]

RECURSIVE Base64(_)
Base64(bs) ==
  IF Len(bs) = 0 THEN <<>>
  ELSE IF Len(bs) = 1 THEN
    <<B64Char(bs[1] \div 4), B64Char((bs[1] % 4) * 16), "=", "=">>
  ELSE IF Len(bs) = 2 THEN
    <<B64Char(bs[1] \div 4), B64Char((bs[1] % 4) * 16 + bs[2] \div 16),
      B64Char((bs[2] % 16) * 4), "=">>
  ELSE
    <<B64Char(bs[1] \div 4), B64Char((bs[1] % 4) * 16 + bs[2] \div 16),
      B64Char((bs[2] % 16) * 4 + bs[3] \div 64), B64Char(bs[3] % 64)>>
      \o Base64(SubSeq(bs, 4, Len(bs)))

\* ---------------------------------------------------- MessageNormalizer
EndsWith(s, p) == Len(s) >= Len(p) /\ SubSeq(s, Len(s) - Len(p) + 1, Len(s)) = p

\* mimetypes.guess_type(path)[0], by extension
GuessType(path) ==
  IF EndsWith(path, <<".", "p", "d", "f">>) THEN "application/pdf"
  ELSE IF EndsWith(path, <<".", "p", "n", "g">>) THEN "image/png"
  ELSE "None"

TextPart(s) == [k |-> "text", text |-> s]
BytesPart(data, mime) == [k |-> "bytes", data |-> data, mime_type |-> mime]
UriPart(uri, mime) == [k |-> "uri", file_uri |-> uri, mime_type |-> mime]

Ok(v) == [ok |-> TRUE, v |-> v]
Raise(e) == [ok |-> FALSE, exc |-> e]

OpenError(path) ==
  CASE FileState(path) = "missing" -> "FileNotFoundError"
    [] FileState(path) = "denied" -> "PermissionError"
    [] OTHER -> "IsADirectoryError"

\* guessed_type is the pair (type, encoding): a non-empty tuple, always truthy
GuessedTypeTruthy(path) == TRUE

get_part_from_file(file_path) ==
  IF StartsWith(file_path, <<"g", "s", ":", "/", "/">>)
  THEN Ok(UriPart(file_path, "application/pdf"))
  ELSE LET mime_type == IF GuessedTypeTruthy(file_path) THEN GuessType(file_path)
                        ELSE "application/octet-stream"
       IN IF FileState(file_path) = "ok"
          THEN Ok(BytesPart(FileData(file_path), mime_type))
          ELSE Raise(OpenError(file_path))

RECURSIVE PartsFromFiles_Reversed(_)
\* each file part inserted at the front instead of appended
PartsFromFiles_Reversed(files) ==
  IF files = <<>> THEN Ok(<<>>)
  ELSE LET p == get_part_from_file(Head(files))
       IN IF ~p.ok THEN p
          ELSE LET rest == PartsFromFiles_Reversed(Tail(files))
               IN IF ~rest.ok THEN rest ELSE Ok(rest.v \o <<p.v>>)

RECURSIVE PartsFromFiles(_)
\* the loop of lines 60-61: the first failing file raises out of the loop
PartsFromFiles(files) ==
  IF files = <<>> THEN Ok(<<>>)
  ELSE LET p == get_part_from_file(Head(files))
       IN IF ~p.ok THEN p
          ELSE LET rest == PartsFromFiles(Tail(files))
               IN IF ~rest.ok THEN rest ELSE Ok(<<p.v>> \o rest.v)

LooksLikePath(item) ==
  \/ StartsWith(item, <<"/">>)
  \/ StartsWith(item, <<".", "/">>)
  \/ StartsWith(item, <<".", ".", "/">>)

RECURSIVE PartsFromTuple(_)
\* the loop of lines 81-93; items are values, only str items contribute
PartsFromTuple(items) ==
  IF items = <<>> THEN Ok(<<>>)
  ELSE LET item == Head(items)
           here ==
             IF item.t # "str" THEN Ok(<<>>)
             ELSE IF LooksLikePath(item.v)
             THEN LET p == get_part_from_file(item.v)
                  IN IF p.ok THEN Ok(<<p.v>>)
                     ELSE IF p.exc = "FileNotFoundError" THEN Ok(<<TextPart(item.v)>>)
                     ELSE p
             ELSE Ok(<<TextPart(item.v)>>)
       IN IF ~here.ok THEN here
          ELSE LET rest == PartsFromTuple(Tail(items))
               IN IF ~rest.ok THEN rest ELSE Ok(here.v \o rest.v)

\* the sentinel of lines 97-98 left out
EmptySentinel_Identity(parts) == parts

\* the sentinel built from the empty string
EmptySentinel_EmptyText(parts) == IF parts = <<>> THEN <<TextPart(<<>>)>> ELSE parts

\* lines 96-98
EmptySentinel(parts) == IF parts = <<>> THEN <<TextPart(<<" ">>)>> ELSE parts

get_parts_from_message(message) ==
  LET raw ==
        CASE message.t = "dict" ->
               LET d == message.d
                   textParts == IF "text" \in DOMAIN d /\ d.text # <<>>
                                THEN <<TextPart(d.text)>> ELSE <<>>
                   fileParts == IF "files" \in DOMAIN d THEN PartsFromFiles(d.files)
                                ELSE Ok(<<>>)
               IN IF fileParts.ok THEN Ok(textParts \o fileParts.v) ELSE fileParts
          [] message.t = "str" ->
               IF message.v # <<>> THEN Ok(<<TextPart(message.v)>>) ELSE Ok(<<>>)
          [] message.t = "image" -> Ok(<<BytesPart(<<137, 80>>, "image/png")>>)
          [] message.t = "bytes" -> Ok(<<BytesPart(message.b, "image/jpeg")>>)
          [] message.t = "tuple" -> PartsFromTuple(message.items)
          [] OTHER -> Ok(<<>>)
  IN IF raw.ok THEN Ok(EmptySentinel(raw.v)) ELSE raw

\* ---------------------------------------------------- ResponseAssembler
\* a response part: text ("" stands for None as well) and optional inline_data
NoBlob == [present |-> FALSE, mime_type |-> "", data |-> <<>>]
Blob(mime, data) == [present |-> TRUE, mime_type |-> mime, data |-> data]
RPart(text, blob) == [text |-> text, inline_data |-> blob]

\* a chunk: candidates (<<>> for None or []), each with an optional content,
\* whose parts may be None
NoContent == [isNone |-> TRUE, partsNone |-> TRUE, parts |-> <<>>]
ContentNoParts == [isNone |-> FALSE, partsNone |-> TRUE, parts |-> <<>>]
Content(parts) == [isNone |-> FALSE, partsNone |-> FALSE, parts |-> parts]
Chunk(content) == [candidates |-> <<[content |-> content]>>]

CNoCandidates == [candidates |-> <<>>]
CNoContent == Chunk(NoContent)
CPartsNone == Chunk(ContentNoParts)
CEmptyText == Chunk(Content(<<RPart(<<>>, NoBlob)>>))
CA == Chunk(Content(<<RPart(<<"a">>, NoBlob)>>))
CImage == Chunk(Content(<<RPart(<<>>, Blob("image/png", <<1, 2, 3, 4>>))>>))
CTextImage ==
  Chunk(Content(<<RPart(<<"a">>, NoBlob), RPart(<<>>, Blob("image/png", <<1, 2, 3, 4>>))>>))

ChunkSet ==
  {CNoCandidates, CNoContent, CPartsNone, CEmptyText, CA, CImage, CTextImage}

\* the markup literals and the media type are kept as single fragments
image_blob_to_markdown_base64(blob) ==
  <<"<img src=\"data:", blob.mime_type, ";base64,">> \o Base64(blob.data) \o <<"\">">>

\* the result is a string; <<>> stands for None (a text part is never "" here,
\* and the Image branch is not taken with use_markdown=True)
convert_part_to_output_type(part, use_markdown) ==
  IF part.text # <<>> THEN part.text
  ELSE IF part.inline_data.present
  THEN IF use_markdown THEN image_blob_to_markdown_base64(part.inline_data)
       ELSE <<"<PIL.Image>">>
  ELSE <<>>

convert_content_to_output_list(content, use_markdown) ==
  IF content.isNone \/ content.partsNone THEN <<>>
  ELSE LET results == [i \in 1..Len(content.parts) |->
                          convert_part_to_output_type(content.parts[i], use_markdown)]
       IN SelectSeq(results, LAMBDA res : res # <<>>)

\* lines 241 / 252: chunk.candidates and chunk.candidates[0] and ...content
ChunkHasContent(chunk) ==
  /\ chunk.candidates # <<>>
  /\ ~chunk.candidates[1].content.isNone

\* lines 241-246: the text pieces of one chunk (with use_markdown=True every
\* surviving piece is a str)
ChunkTextChunks(chunk) ==
  IF ChunkHasContent(chunk)
  THEN convert_content_to_output_list(chunk.candidates[1].content, TRUE)
  ELSE <<>>

\* the guard of line 246 dropped: an increment for every chunk
StreamYield_NoGuard(chunk) == <<Join(ChunkTextChunks(chunk))>>

\* lines 246-247: what the generator yields for one chunk, as a sequence of
\* zero or one increments
StreamYield(chunk) ==
  IF ChunkTextChunks(chunk) # <<>> THEN <<Join(ChunkTextChunks(chunk))>> ELSE <<>>

\* ------------------------------------------------------------- state
Callers == {1, 2}

VARIABLES
  active,           \* the callers that submit in this run
  chat_history,     \* the shared list passed as chat_history
  pc,               \* per caller: position in automated_chat / the generator
  user_input,       \* per caller: user_input of automated_chat
  stream_response,  \* per caller: the stream_response argument
  hist0,            \* per caller: chat_history on entry to automated_chat
  contents,         \* per caller: the payload built by the generator
  lookup,           \* per caller: outcome of call_mcp_tool, "none" if not called
  arrived,          \* per caller: the chunks the backend stream delivered
  yielded,          \* per caller: the increments the generator yielded
  full_response,    \* per caller: full_response of automated_chat
  result,           \* per caller: what the caller of automated_chat receives
  log,              \* per caller: collaborator invocations, in order
  nSubmits,         \* automated_chat calls started
  nChunks,          \* chunks served by the backend
  nFailed,          \* automated_chat calls that raised
  norm,             \* one direct call of the normaliser / payload builder
  prec              \* one call of the find_legal_precedents tool

vars ==
  <<active, chat_history, pc, user_input, stream_response, hist0, contents,
    lookup, arrived, yielded, full_response, result, log, nSubmits, nChunks,
    nFailed, norm, prec>>

\* the variables of the direct calls, which the chat actions leave alone
directVars == <<norm, prec>>
NormIdle == [pc |-> "idle"]
PrecIdle == [pc |-> "idle"]

NoResult == [t |-> "pending"]
Raised(e) == [t |-> "exception", exc |-> e]

\* bool(value) in Python
Truthy(v) ==
  CASE v.t = "str" -> v.v # <<>>
    [] v.t = "bytes" -> v.b # <<>>
    [] v.t = "tuple" -> v.items # <<>>
    [] v.t = "dict" -> DOMAIN v.d # {}
    [] v.t = "None" -> FALSE
    [] OTHER -> TRUE

InitCommon ==
  /\ chat_history = <<>>
  /\ pc = [c \in Callers |-> "idle"]
  /\ user_input = [c \in Callers |-> None]
  /\ stream_response = [c \in Callers |-> FALSE]
  /\ hist0 = [c \in Callers |-> <<>>]
  /\ contents = [c \in Callers |-> <<>>]
  /\ lookup = [c \in Callers |-> "none"]
  /\ arrived = [c \in Callers |-> <<>>]
  /\ yielded = [c \in Callers |-> <<>>]
  /\ full_response = [c \in Callers |-> <<>>]
  /\ result = [c \in Callers |-> NoResult]
  /\ log = [c \in Callers |-> <<>>]
  /\ nSubmits = 0
  /\ nChunks = 0
  /\ nFailed = 0

\* one caller owns the history
Init == active = {1} /\ InitCommon /\ norm = NormIdle /\ prec = PrecIdle

\* two callers share one chat_history list
InitConc == active = Callers /\ InitCommon /\ norm = NormIdle /\ prec = PrecIdle

\* ------------------------------------------------------ automated_chat
\* the submitted turn stored under the wrong role
UserTurn_AsModel(input) == [role |-> "model", content |-> input]

UserTurn(input) == [role |-> "user", content |-> input]
ModelTurn(content) == [role |-> "model", content |-> content]

\* lines 273-276
UserInput(question, file_path) ==
  IF file_path # <<>> THEN Dict([text |-> question, files |-> <<file_path>>])
  ELSE Str(question)

\* lines 270-278 and the call of line 281 / 288, which only creates the
\* generator object: no statement of generate_legal_advice runs yet
Submit(c, question, file_path, sr) ==
  /\ c \in active
  /\ pc[c] \in {"idle", "done", "failed"}
  /\ nSubmits < MaxSubmits
  /\ nSubmits' = nSubmits + 1
  /\ hist0' = [hist0 EXCEPT ![c] = chat_history]
  /\ user_input' = [user_input EXCEPT ![c] = UserInput(question, file_path)]
  /\ stream_response' = [stream_response EXCEPT ![c] = sr]
  /\ chat_history' = Append(chat_history, UserTurn(UserInput(question, file_path)))
  /\ pc' = [pc EXCEPT ![c] = "called"]
  /\ contents' = [contents EXCEPT ![c] = <<>>]
  /\ lookup' = [lookup EXCEPT ![c] = "none"]
  /\ arrived' = [arrived EXCEPT ![c] = <<>>]
  /\ yielded' = [yielded EXCEPT ![c] = <<>>]
  /\ full_response' = [full_response EXCEPT ![c] = <<>>]
  /\ result' = [result EXCEPT ![c] = NoResult]
  /\ log' = [log EXCEPT ![c] = <<>>]
  /\ UNCHANGED <<active, nChunks, nFailed>>
  /\ UNCHANGED directVars

\* line 288: generate_legal_advice contains a yield, so the call returns a
\* generator object whatever stream_response is; nothing iterates it
BatchResponse(c) == GeneratorObject

\* lines 288-291
BatchReturn(c) ==
  /\ pc[c] = "called"
  /\ ~stream_response[c]
  /\ chat_history' = Append(chat_history, ModelTurn(BatchResponse(c)))
  /\ result' = [result EXCEPT ![c] = BatchResponse(c)]
  /\ pc' = [pc EXCEPT ![c] = "done"]
  /\ UNCHANGED <<active, user_input, stream_response, hist0, contents, lookup,
                 arrived, yielded, full_response, log, nSubmits, nChunks, nFailed>>
  /\ UNCHANGED directVars

\* the partial response committed on the way out
HistoryOnFailure_Partial(h, partial) == Append(h, ModelTurn(Str(partial)))

\* an exception leaves automated_chat between line 281 and line 285: the
\* history is left as it is
HistoryOnFailure(h, partial) == h

Fail(c, e) ==
  /\ pc' = [pc EXCEPT ![c] = "failed"]
  /\ result' = [result EXCEPT ![c] = Raised(e)]
  /\ chat_history' = HistoryOnFailure(chat_history, full_response[c])
  /\ nFailed' = nFailed + 1

\* the model turn written over the last entry instead of appended
HistoryOnCompletion_Overwrite(h, text) ==
  Append(SubSeq(h, 1, Len(h) - 1), ModelTurn(Str(text)))

\* lines 285-286
HistoryOnCompletion(h, text) == Append(h, ModelTurn(Str(text)))

Complete(c, text) ==
  /\ pc' = [pc EXCEPT ![c] = "done"]
  /\ result' = [result EXCEPT ![c] = Str(text)]
  /\ chat_history' = HistoryOnCompletion(chat_history, text)
  /\ nFailed' = nFailed

\* ----------------------------------------------- generate_legal_advice
Turn(role, parts) == [role |-> role, parts |-> parts]

RECURSIVE HistoryContents(_)
\* lines 198-205: one turn per history entry; a raising normaliser raises out
HistoryContents(h) ==
  IF h = <<>> THEN Ok(<<>>)
  ELSE LET prev_msg == Head(h)
           role == IF prev_msg.role = "user" THEN "user" ELSE "model"
           parts == get_parts_from_message(prev_msg.content)
       IN IF ~parts.ok THEN parts
          ELSE LET rest == HistoryContents(Tail(h))
               IN IF ~rest.ok THEN rest
                  ELSE Ok((IF parts.v # <<>> THEN <<Turn(role, parts.v)>> ELSE <<>>)
                          \o rest.v)

\* lines 207-211
CurrentMessageContents(user_message) ==
  IF Truthy(user_message)
  THEN LET parts == get_parts_from_message(user_message)
       IN IF parts.ok THEN Ok(<<Turn("user", parts.v)>>) ELSE parts
  ELSE Ok(<<>>)

\* lines 198-211
BuildContents(h, user_message) ==
  LET hc == HistoryContents(h)
  IN IF ~hc.ok THEN hc
     ELSE LET cur == CurrentMessageContents(user_message)
          IN IF ~cur.ok THEN cur ELSE Ok(hc.v \o cur.v)

\* first next() on the generator: lines 179-224 run, reading the shared list
StartGenerator(c) ==
  /\ pc[c] = "called"
  /\ stream_response[c]
  /\ IF BuildContents(chat_history, user_input[c]).ok
     THEN /\ contents' = [contents EXCEPT ![c] = BuildContents(chat_history, user_input[c]).v]
          /\ pc' = [pc EXCEPT ![c] = "built"]
          /\ UNCHANGED <<chat_history, result, nFailed>>
     ELSE /\ Fail(c, BuildContents(chat_history, user_input[c]).exc)
          /\ UNCHANGED contents
  /\ UNCHANGED <<active, user_input, stream_response, hist0, lookup, arrived,
                 yielded, full_response, log, nSubmits, nChunks>>
  /\ UNCHANGED directVars

\* line 227
IsBypass(user_message) ==
  /\ user_message.t = "str"
  /\ StartsWith(Lower(user_message.v), WhatIs)

\* line 228
Term(user_message) == Strip(Replace(Lower(user_message.v), WhatIs), {"?", " ", "."})

LookupOutcomes == {"raise", "non200", "definition", "no_definition", "empty_json"}

\* lines 295-299: requests.post raises on a connection error; a 200 response is
\* decoded, any other status gives None
call_mcp_tool(outcome) ==
  CASE outcome = "raise" -> Raise("ConnectionError")
    [] outcome = "non200" -> Ok(None)
    [] outcome = "definition" -> Ok(Dict([definition |-> DefText]))
    [] outcome = "no_definition" -> Ok(Dict([error |-> <<"n", "o">>]))
    [] OTHER -> Ok(Dict(<<>>))

\* the key test of line 230 dropped
LookupSucceeds_AnyDict(definition) == Truthy(definition)

\* line 230
LookupSucceeds(definition) ==
  /\ Truthy(definition)
  /\ "definition" \in DOMAIN definition.d

LogEntry(call, term) == [call |-> call, term |-> term]

\* lines 227-231.  On success the generator returns the definition: the
\* return value of a generator travels in StopIteration and the for loop of
\* line 283 drops it, so automated_chat goes on to line 285 with no chunk
Lookup(c, outcome) ==
  /\ pc[c] = "built"
  /\ IsBypass(user_input[c])
  /\ lookup' = [lookup EXCEPT ![c] = outcome]
  /\ log' = [log EXCEPT ![c] = Append(@, LogEntry("lookup", Term(user_input[c])))]
  /\ IF ~call_mcp_tool(outcome).ok THEN Fail(c, call_mcp_tool(outcome).exc)
     ELSE IF LookupSucceeds(call_mcp_tool(outcome).v) THEN Complete(c, full_response[c])
     ELSE /\ pc' = [pc EXCEPT ![c] = "looked"]
          /\ UNCHANGED <<chat_history, result, nFailed>>
  /\ UNCHANGED <<active, user_input, stream_response, hist0, contents, arrived,
                 yielded, full_response, nSubmits, nChunks>>
  /\ UNCHANGED directVars

\* lines 233-237
BackendCall(c, ok) ==
  /\ \/ pc[c] = "looked"
     \/ pc[c] = "built" /\ ~IsBypass(user_input[c])
  /\ log' = [log EXCEPT ![c] = Append(@, LogEntry("backend", <<>>))]
  /\ IF ok
     THEN /\ pc' = [pc EXCEPT ![c] = "streaming"]
          /\ UNCHANGED <<chat_history, result, nFailed>>
     ELSE Fail(c, "BackendError")
  /\ UNCHANGED <<active, user_input, stream_response, hist0, contents, lookup,
                 arrived, yielded, full_response, nSubmits, nChunks>>
  /\ UNCHANGED directVars

\* = instead of += at line 284
Accumulate_Overwrite(full, increments) ==
  IF increments = <<>> THEN full ELSE Join(increments)

\* line 284, once per yielded increment
Accumulate(full, increments) == full \o Join(increments)

ChunkBudget == IF active = Callers THEN MaxChunksConc ELSE MaxChunks

\* one chunk arrives: lines 240-247 and the loop body of lines 283-284
NextChunk(c, chunk) ==
  /\ pc[c] = "streaming"
  /\ nChunks < ChunkBudget
  /\ nChunks' = nChunks + 1
  /\ arrived' = [arrived EXCEPT ![c] = Append(@, chunk)]
  /\ yielded' = [yielded EXCEPT ![c] = @ \o StreamYield(chunk)]
  /\ full_response' = [full_response EXCEPT ![c] = Accumulate(@, StreamYield(chunk))]
  /\ UNCHANGED <<active, chat_history, pc, user_input, stream_response, hist0,
                 contents, lookup, result, log, nSubmits, nFailed>>
  /\ UNCHANGED directVars

\* the backend stream raises while automated_chat waits for the next chunk
StreamRaise(c) ==
  /\ pc[c] = "streaming"
  /\ Fail(c, "StreamError")
  /\ UNCHANGED <<active, user_input, stream_response, hist0, contents, lookup,
                 arrived, yielded, full_response, log, nSubmits, nChunks>>
  /\ UNCHANGED directVars

\* the backend stream is exhausted: the generator ends, lines 285-286
StreamEnd(c) ==
  /\ pc[c] = "streaming"
  /\ Complete(c, full_response[c])
  /\ UNCHANGED <<active, user_input, stream_response, hist0, contents, lookup,
                 arrived, yielded, full_response, log, nSubmits, nChunks>>
  /\ UNCHANGED directVars

Next ==
  \/ \E c \in Callers, in \in Inputs, sr \in BOOLEAN : Submit(c, in[1], in[2], sr)
  \/ \E c \in Callers : BatchReturn(c)
  \/ \E c \in Callers : StartGenerator(c)
  \/ \E c \in Callers, o \in LookupOutcomes : Lookup(c, o)
  \/ \E c \in Callers, ok \in BOOLEAN : BackendCall(c, ok)
  \/ \E c \in Callers, ch \in ChunkSet : NextChunk(c, ch)
  \/ \E c \in Callers : StreamRaise(c)
  \/ \E c \in Callers : StreamEnd(c)

Spec == Init /\ [][Next]_vars

SpecConc == InitConc /\ [][Next]_vars

TypeOK ==
  /\ active \subseteq Callers
  /\ nSubmits \in 0..MaxSubmits
  /\ nChunks \in 0..MaxChunks
  /\ \A c \in Callers :
       pc[c] \in {"idle", "called", "built", "looked", "streaming", "done", "failed"}

\* ------------------------------------------------------- direct calls
\* get_parts_from_message, get_part_from_file and the payload construction of
\* generate_legal_advice, each applied once to an input drawn at the start
chatVars ==
  <<active, chat_history, pc, user_input, stream_response, hist0, contents,
    lookup, arrived, yielded, full_response, result, log, nSubmits, nChunks,
    nFailed>>

SeqsUpTo(S, n) == UNION {[1..k -> S] : k \in 0..n}

Hello == <<"h", "e", "l", "l", "o">>
RelPath == <<".", "/", "y">>
EmptyDict == [x \in {} |-> <<>>]

NormPaths == {GsPath, PdfPath, OddPath, MissingPath, DeniedPath, DirPath}
FileLists == SeqsUpTo(NormPaths, MaxFiles)

StrMessages == {Str(<<>>), Str(<<" ">>), Str(<<" ", " ">>), Str(Hello)}

DictMessages ==
  {Dict([text |-> t, files |-> f]) : t \in {<<>>, Hello}, f \in FileLists}
    \cup {Dict([files |-> f]) : f \in FileLists}
    \cup {Dict([text |-> t]) : t \in {<<>>, Hello}}
    \cup {Dict(EmptyDict)}

TupleItems ==
  {Str(Hello), Str(<<>>), Str(PdfPath), Str(MissingPath), Str(DeniedPath),
   Str(DirPath), Str(RelPath), Bytes(<<1>>)}

TupleMessages == {Tuple(items) : items \in SeqsUpTo(TupleItems, MaxItems)}

OtherMessages == {Bytes(<<>>), Bytes(<<1, 2>>), ImageObject, GeneratorObject, None}

Messages == StrMessages \cup DictMessages \cup TupleMessages \cup OtherMessages

Histories ==
  {<<>>,
   <<[role |-> "user", content |-> Str(QPlain)],
     [role |-> "model", content |-> Str(DefText)]>>,
   <<[role |-> "user", content |-> Str(<<>>)],
     [role |-> "assistant", content |-> GeneratorObject]>>}

InitNorm ==
  /\ active = {}
  /\ InitCommon
  /\ prec = PrecIdle
  /\ norm \in {[pc |-> "input", msg |-> m, hist |-> h, path |-> NoPath, out |-> NoResult] :
                 m \in Messages, h \in Histories}

\* get_parts_from_message(msg)
Normalize ==
  /\ norm.pc = "input"
  /\ norm' = [norm EXCEPT !.pc = "normalized", !.out = get_parts_from_message(norm.msg)]
  /\ UNCHANGED <<chatVars, prec>>

\* lines 198-211 of generate_legal_advice on (chat_history, user_message)
Build ==
  /\ norm.pc = "input"
  /\ norm' = [norm EXCEPT !.pc = "built", !.out = BuildContents(norm.hist, norm.msg)]
  /\ UNCHANGED <<chatVars, prec>>

\* get_part_from_file(path)
FilePart(path) ==
  /\ norm.pc = "input"
  /\ norm' = [norm EXCEPT !.pc = "filed", !.path = path, !.out = get_part_from_file(path)]
  /\ UNCHANGED <<chatVars, prec>>

NextNorm ==
  \/ Normalize
  \/ Build
  \/ \E path \in NormPaths : FilePart(path)

SpecNorm == InitNorm /\ [][NextNorm]_vars

\* ----------------------------------------------- find_legal_precedents
\* str.strip() and the test `not s or not s.strip()`
StripWs(s) == Strip(s, {" "})
Blank(s) == s = <<>> \/ StripWs(s) = <<>>

US == <<"U", "S">>

\* what model.generate_content does: it raises, or it gives a response whose
\* text may be empty (<<>> also stands for a None text)
ModelOutcomes ==
  {[kind |-> "raise", text |-> <<>>]}
    \cup {[kind |-> "response", text |-> t] :
            t \in {<<>>, <<" ">>, <<"p">>, <<" ", "p", " ">>}}

\* Precedent.py lines 25-73; the messages are kept as single fragments
find_precedents(user_clause, location, outcome) ==
  IF Blank(user_clause) THEN <<"Error: No clause provided for analysis.">>
  ELSE LET loc == IF Blank(location) THEN US ELSE StripWs(location)
       IN IF outcome.kind = "raise"
          THEN <<"Error analyzing precedents: ", "model call failed">>
          ELSE IF outcome.text # <<>> THEN StripWs(outcome.text)
          ELSE <<"No precedents could be identified for the given clause in jurisdiction: ">>
                 \o loc

\* line 227 of mcp_app.py
PrecedentsFound(precedents_result) == precedents_result # <<>>

\* mcp_app.py lines 215-254.  find_precedents catches every exception itself,
\* so for str arguments the except branch of line 246 is not taken
find_legal_precedents(clause, location, outcome) ==
  IF Blank(clause) THEN [error |-> Str(<<"clause text is required">>)]
  ELSE LET loc == IF Blank(location) THEN US ELSE location
           precedents_result == find_precedents(StripWs(clause), StripWs(loc), outcome)
       IN IF PrecedentsFound(precedents_result)
          THEN [success |-> TRUE, clause |-> clause, location |-> loc,
                precedents |-> precedents_result, error |-> None]
          ELSE [success |-> FALSE,
                error |-> Str(<<"No precedents found or analysis failed">>),
                clause |-> clause, location |-> loc, precedents |-> <<>>]

Clauses ==
  {<<>>, <<" ">>, <<"c">>, <<" ", "c", " ">>, <<"c", "d">>, <<"c", " ", "d">>}
Locations == {<<>>, <<" ">>, US, <<" ", "I", "N", " ">>, <<"U", "K">>}
NotCalled == [kind |-> "not called", text |-> <<>>]

InitPrec ==
  /\ active = {}
  /\ InitCommon
  /\ norm = NormIdle
  /\ prec \in {[pc |-> "input", clause |-> cl, location |-> lo, outcome |-> NotCalled,
                 out |-> NoResult] : cl \in Clauses, lo \in Locations}

\* one call of the tool; the model's outcome matters only when the clause is
\* not blank, since only then find_precedents is reached
FindLegalPrecedents(o) ==
  /\ prec.pc = "input"
  /\ prec' = [prec EXCEPT
                !.pc = "returned",
                !.outcome = IF Blank(prec.clause) THEN NotCalled ELSE o,
                !.out = find_legal_precedents(prec.clause, prec.location, o)]
  /\ UNCHANGED <<chatVars, norm>>

NextPrec == \E o \in ModelOutcomes : FindLegalPrecedents(o)

SpecPrec == InitPrec /\ [][NextPrec]_vars

\* ================================================================ claims
Done(c) == pc[c] = "done"
Failed(c) == pc[c] = "failed"

\* the parts a chunk carries, <<>> when candidates, content or parts is absent
PartsOf(chunk) ==
  IF chunk.candidates = <<>> THEN <<>>
  ELSE IF chunk.candidates[1].content.isNone THEN <<>>
  ELSE IF chunk.candidates[1].content.partsNone THEN <<>>
  ELSE chunk.candidates[1].content.parts

HasText(chunk) == \E i \in 1..Len(PartsOf(chunk)) : PartsOf(chunk)[i].text # <<>>

HasOutput(chunk) ==
  \E i \in 1..Len(PartsOf(chunk)) :
    PartsOf(chunk)[i].text # <<>> \/ PartsOf(chunk)[i].inline_data.present

\* text verbatim, binary as <img src="data:{media_type};base64,{...}">
Rendered(part) ==
  IF part.text # <<>> THEN part.text
  ELSE IF part.inline_data.present
  THEN <<"<img src=\"data:", part.inline_data.mime_type, ";base64,">>
         \o Base64(part.inline_data.data) \o <<"\">">>
  ELSE <<>>

RenderedChunk(chunk) == Join([i \in 1..Len(PartsOf(chunk)) |-> Rendered(PartsOf(chunk)[i])])

RECURSIVE ExpectedIncrements(_)
ExpectedIncrements(chunks) ==
  IF chunks = <<>> THEN <<>>
  ELSE (IF HasOutput(Head(chunks)) THEN <<RenderedChunk(Head(chunks))>> ELSE <<>>)
       \o ExpectedIncrements(Tail(chunks))

NumTextChunks(chunks) == Cardinality({i \in 1..Len(chunks) : HasText(chunks[i])})

Calls(c) == [i \in 1..Len(log[c]) |-> log[c][i].call]

\* C1: in Batch mode (stream_response=False) a completed automated_chat hands
\* its caller one string, the concatenation in arrival order of the text of
\* every chunk of the backend stream, and the backend stream was drained.
C1_BatchReturnsJoinedString ==
  \A c \in Callers :
    Done(c) /\ ~stream_response[c] =>
      /\ result[c].t = "str"
      /\ result[c] = Str(Join(ExpectedIncrements(arrived[c])))
      /\ "backend" \in {Calls(c)[i] : i \in 1..Len(log[c])}

\* C2: the history is only appended to.  A completed exchange leaves the
\* entries that were there on entry unchanged and in order and adds exactly
\* two, a user turn then a model turn; while every call so far has completed,
\* n exchanges give length 2n with roles alternating user, model.
C2_HistoryAppendOnly ==
  \A c \in Callers :
    Done(c) =>
      /\ Len(chat_history) = Len(hist0[c]) + 2
      /\ SubSeq(chat_history, 1, Len(hist0[c])) = hist0[c]
      /\ chat_history[Len(chat_history) - 1].role = "user"
      /\ chat_history[Len(chat_history)].role = "model"
      /\ nFailed = 0 =>
           /\ Len(chat_history) = 2 * nSubmits
           /\ \A i \in 1..Len(chat_history) :
                chat_history[i].role = IF i % 2 = 1 THEN "user" ELSE "model"

C2_Witness ==
  /\ Done(1)
  /\ nSubmits = 2
  /\ nFailed = 0
  /\ Len(chat_history) = 4

\* C3 as stated: in Stream mode the generator yields exactly one increment per
\* chunk that has non-empty text content, never an empty string.
C3_OneIncrementPerTextChunk ==
  \A c \in Callers :
    stream_response[c] =>
      /\ Len(yielded[c]) = NumTextChunks(arrived[c])
      /\ \A i \in 1..Len(yielded[c]) : yielded[c][i] # <<>>

\* C3 amended: in Stream mode the generator yields, in arrival order, exactly
\* one increment per chunk that has a part with non-empty text or with inline
\* data (rendered as <img> markup); a chunk with absent candidates, absent
\* content or no parts yields nothing, and no increment is the empty string.
C3_OneIncrementPerOutputChunk ==
  \A c \in Callers :
    stream_response[c] =>
      /\ yielded[c] = ExpectedIncrements(arrived[c])
      /\ \A i \in 1..Len(yielded[c]) : yielded[c][i] # <<>>

C3_Witness ==
  /\ Done(1)
  /\ stream_response[1]
  /\ arrived[1] = <<CNoContent, CImage>>
  /\ Len(yielded[1]) = 1

\* C4: when automated_chat completes in Stream mode, the last history entry
\* is a model turn whose content is the concatenation, in order, of the
\* increments yielded for the exchange, and the caller receives that string.
C4_StreamModelTurnIsConcatenation ==
  \A c \in Callers :
    Done(c) /\ stream_response[c] =>
      /\ chat_history[Len(chat_history)] =
           [role |-> "model", content |-> [t |-> "str", v |-> Join(yielded[c])]]
      /\ result[c] = [t |-> "str", v |-> Join(yielded[c])]

C4_Witness ==
  /\ Done(1)
  /\ stream_response[1]
  /\ Len(yielded[1]) = 2
  /\ yielded[1][1] # yielded[1][2]

\* C5: a submission that fails after its user turn was appended leaves the
\* history as it was on entry plus exactly that user turn: no model turn.
C5_FailureLeavesOnlyUserTurn ==
  \A c \in Callers :
    Failed(c) =>
      chat_history = Append(hist0[c], [role |-> "user", content |-> user_input[c]])

C5_Witness ==
  /\ Failed(1)
  /\ result[1] = Raised("StreamError")
  /\ full_response[1] # <<>>

\* C6 as stated: when the "what is" bypass is taken and the lookup succeeds,
\* the history after the call equals the history before it.
C6_BypassLeavesHistoryUnchanged ==
  \A c \in Callers :
    Done(c) /\ lookup[c] = "definition" => chat_history = hist0[c]

\* C6 amended: when the bypass is taken and the lookup succeeds, the
\* submission through automated_chat still appends exactly two turns to the
\* history it found: the user turn holding the raw input, then a model turn.
C6_BypassAppendsBothTurns ==
  \A c \in Callers :
    Done(c) /\ lookup[c] = "definition" =>
      /\ Len(chat_history) = Len(hist0[c]) + 2
      /\ SubSeq(chat_history, 1, Len(hist0[c])) = hist0[c]
      /\ chat_history[Len(hist0[c]) + 1] = [role |-> "user", content |-> user_input[c]]
      /\ chat_history[Len(hist0[c]) + 2].role = "model"

C6_Witness ==
  /\ Done(1)
  /\ lookup[1] = "definition"
  /\ user_input[1] = Str(QWhatIs)

\* C7: when the bypass is taken and the lookup returns a definition, the
\* caller of the submission receives that definition string.
C7_BypassReturnsDefinition ==
  \A c \in Callers :
    Done(c) /\ lookup[c] = "definition" => result[c] = Str(DefText)

\* C8: when the lookup succeeds the generation backend is never invoked for
\* the submission; when the lookup yields no definition the backend is
\* invoked exactly once, after the lookup.
C8_BypassSkipsBackend ==
  \A c \in Callers :
    /\ lookup[c] = "definition" => Calls(c) = <<"lookup">>
    /\ lookup[c] \in {"non200", "no_definition", "empty_json"}
         /\ pc[c] \in {"streaming", "done", "failed"}
         => Calls(c) = <<"lookup", "backend">>

C8_Witness ==
  /\ Done(1)
  /\ lookup[1] = "no_definition"
  /\ Calls(1) = <<"lookup", "backend">>

\* C9: a transport failure of the lookup (a non-200 response or a raised
\* connection error) is treated as "no definition": the submission does not
\* fail on it and goes on to the generation backend.
C9_LookupFailureProceeds ==
  \A c \in Callers :
    lookup[c] \in {"raise", "non200"} =>
      \/ pc[c] = "looked"
      \/ Calls(c) = <<"lookup", "backend">>

\* C10: two callers on one chat_history list are never in flight together,
\* so while no call has failed the history never holds two consecutive turns
\* of the same role.
InFlight(c) == pc[c] \in {"called", "built", "looked", "streaming"}

C10_SubmissionsSerialized ==
  /\ ~(InFlight(1) /\ InFlight(2))
  /\ nFailed = 0 =>
       \A i \in 1..(Len(chat_history) - 1) :
         chat_history[i].role # chat_history[i + 1].role

\* ------------------------------------------- claims on the direct calls
Normalized == norm.pc = "normalized"
SpaceText == [k |-> "text", text |-> <<" ">>]

HasKey(m, key) == key \in DOMAIN m.d
TextOf(m) == IF HasKey(m, "text") THEN m.d.text ELSE <<>>
FilesOf(m) == IF HasKey(m, "files") THEN m.d.files ELSE <<>>

\* the inputs from which no branch of the normaliser takes a part
ProducesNoPart(m) ==
  CASE m.t = "str" -> m.v = <<>>
    [] m.t = "dict" -> TextOf(m) = <<>> /\ FilesOf(m) = <<>>
    [] m.t = "tuple" -> \A i \in 1..Len(m.items) : m.items[i].t # "str"
    [] m.t = "image" -> FALSE
    [] m.t = "bytes" -> FALSE
    [] OTHER -> TRUE

\* C11: whenever get_parts_from_message returns, the part sequence has length
\* at least 1, and an input that produces no part yields exactly one Text
\* part holding a single space.
C11_ResultNeverEmpty ==
  Normalized /\ norm.out.ok =>
    /\ Len(norm.out.v) >= 1
    /\ ProducesNoPart(norm.msg) => norm.out.v = <<SpaceText>>

C11_Witness ==
  /\ Normalized
  /\ norm.msg = Tuple(<<Bytes(<<1>>)>>)
  /\ norm.out.ok
  /\ Len(norm.out.v) = 1

WhitespaceOnly(m) == m.t = "str" /\ \A i \in 1..Len(m.v) : m.v[i] = " "

\* C12 as stated: for every raw text input that is empty or whitespace-only,
\* get_parts_from_message returns exactly one Text part holding one space.
C12_WhitespaceGivesSentinel ==
  Normalized /\ WhitespaceOnly(norm.msg) =>
    norm.out.ok /\ norm.out.v = <<SpaceText>>

\* C12 amended: for the empty raw text input get_parts_from_message returns
\* exactly one Text part holding a single space; a non-empty whitespace-only
\* input comes back verbatim as the single Text part.
C12_EmptyGivesSentinel ==
  Normalized /\ WhitespaceOnly(norm.msg) =>
    /\ norm.out.ok
    /\ Len(norm.out.v) = 1
    /\ norm.out.v[1].k = "text"
    /\ norm.out.v[1].text = IF norm.msg.v = <<>> THEN <<" ">> ELSE norm.msg.v

C12_Witness ==
  /\ Normalized
  /\ norm.msg = Str(<<" ", " ">>)
  /\ norm.out.ok
  /\ norm.out.v[1].text = <<" ", " ">>

IsRemote(path) == Len(path) >= 5 /\ SubSeq(path, 1, 5) = <<"g", "s", ":", "/", "/">>

Resolvable(path) == IsRemote(path) \/ FileState(path) = "ok"

\* the part is the one made from this attachment
PartIsAttachment(part, path) ==
  IF IsRemote(path)
  THEN part.k = "uri" /\ part.file_uri = path
  ELSE part.k = "bytes" /\ part.data = FileData(path)

ResolvableBundle(m) ==
  m.t = "dict" /\ \A i \in 1..Len(FilesOf(m)) : Resolvable(FilesOf(m)[i])

NumText(m) == IF TextOf(m) # <<>> THEN 1 ELSE 0

TextThenAttachments(m, parts) ==
  /\ Len(parts) = NumText(m) + Len(FilesOf(m))
  /\ NumText(m) = 1 => parts[1] = [k |-> "text", text |-> TextOf(m)]
  /\ \A i \in 1..Len(FilesOf(m)) : PartIsAttachment(parts[NumText(m) + i], FilesOf(m)[i])

\* C13 as stated: for a dict bundle with optional text and n resolvable
\* attachments the result is the Text part (only when the text is present and
\* non-empty) followed by exactly one part per attachment in listed order.
C13_TextThenAttachments ==
  Normalized /\ ResolvableBundle(norm.msg) =>
    norm.out.ok /\ TextThenAttachments(norm.msg, norm.out.v)

\* C13 amended: as stated whenever the bundle has a non-empty text or at least
\* one attachment; a bundle with neither yields the single-space Text part.
C13_TextThenAttachmentsOrSentinel ==
  Normalized /\ ResolvableBundle(norm.msg) =>
    /\ norm.out.ok
    /\ IF NumText(norm.msg) + Len(FilesOf(norm.msg)) = 0
       THEN norm.out.v = <<SpaceText>>
       ELSE TextThenAttachments(norm.msg, norm.out.v)

C13_Witness ==
  /\ Normalized
  /\ norm.msg = Dict([text |-> Hello, files |-> <<PdfPath, OddPath>>])
  /\ norm.out.ok
  /\ Len(norm.out.v) = 3

\* C14: the payload ends with a user turn for the new input whenever the new
\* input is non-null, also when it is an empty string, dict or tuple.
C14_NewInputTurnAlwaysAppended ==
  norm.pc = "built" /\ norm.out.ok /\ norm.msg.t # "None" =>
    /\ Len(norm.out.v) = Len(norm.hist) + 1
    /\ norm.out.v[Len(norm.out.v)].role = "user"

\* C15: for a tuple or dict input whose local file cannot be located or read,
\* get_parts_from_message does not raise.
C15_ResolutionFailureNeverRaises ==
  Normalized /\ norm.msg.t \in {"tuple", "dict"} => norm.out.ok

\* C16: the media type of a part built from a local file is never None; when
\* it cannot be guessed from the name it is "application/octet-stream".
C16_LocalMimeNeverNone ==
  norm.pc = "filed" /\ norm.out.ok /\ norm.out.v.k = "bytes" =>
    /\ norm.out.v.mime_type # "None"
    /\ norm.path = OddPath => norm.out.v.mime_type = "application/octet-stream"

\* C17: the payload automated_chat sends holds one turn per entry the history
\* had before the call, followed by a single user turn for the new input.
C17_PayloadHoldsInputOnce ==
  \A c \in Callers :
    pc[c] \in {"built", "looked", "streaming"} =>
      Len(contents[c]) = Len(hist0[c]) + 1

\* ------------------------------------------ claims on the precedent tool
\* the model answered with text that is not blank
AnalysisProduced(o) == o.kind = "response" /\ \E i \in 1..Len(o.text) : o.text[i] # " "

\* C18: find_legal_precedents reports success=True only when find_precedents
\* produced an analysis; when the analysis fails (the model call raises, or
\* no precedents could be identified) the result has success=False and a
\* non-empty error.
C18_SuccessOnlyOnAnalysis ==
  prec.pc = "returned" =>
    /\ "success" \in DOMAIN prec.out /\ prec.out.success
         => AnalysisProduced(prec.outcome)
    /\ prec.outcome # NotCalled /\ ~AnalysisProduced(prec.outcome)
         => /\ "success" \in DOMAIN prec.out
            /\ ~prec.out.success
            /\ prec.out.error.t = "str"
            /\ prec.out.error.v # <<>>

====
